---- MODULE Spec2Model ----
(***************************************************************************)
(* A model of crawler.py: the Page class (construction from a snapshot     *)
(* record, the content passes of _parse_body, _meta_authors, _override,    *)
(* links() and children()) over the Snapshot accessors it reads.           *)
(*                                                                         *)
(* Representation.  BeautifulSoup documents are trees of nodes             *)
(*   [name, attrs, text, kids]; a text node has name "#text".  An element  *)
(* is addressed by its path, the sequence of child indices from the root   *)
(* of the tree, and select() returns paths in document order.  A string    *)
(* is a sequence of tokens Txt(s, n).  An href is the record               *)
(*   [lead, path, n, ext, bars]  for the text  lead path[-n][ext]|...|     *)
(* and a url is the site prefix followed by an href.  Python exceptions    *)
(* are results [ok |-> FALSE, err |-> <class name>].                       *)
(*                                                                         *)
(* Specifications.  Spec: a page with links to other pages is constructed  *)
(* and asked for its children and links.  SpecAuthors: the same calls on a *)
(* page with a history table and a rewrite entry.  SpecLinks: the same     *)
(* calls on a page whose anchors carry hrefs of every shape.  SpecContent: *)
(* a page is constructed from a content region of blocks, and the content  *)
(* passes are applied to that region one at a time.                        *)
(***************************************************************************)
EXTENDS Integers, Sequences, FiniteSets, TLC

VARIABLES
    sn,     \* the snapshot the Page class reads (Page.sn)
    req,    \* the url the caller constructs a page for
    page,   \* <<>>, or the outcome of Page(req): Ok(the page) or Err(exception)
    ret,    \* <<>>, or the outcome of the last call on the page
    dom,    \* <<>>, or a content tree the passes are applied to one by one
    log     \* the passes applied to dom, in order

vars == <<sn, req, page, ret, dom, log>>

----------------------------------------------------------------------------
(* Bounds of the model.                                                    *)

\* longest sequence of hyperlinks in a page's content region
MaxLinks == 2
\* most top-level blocks in a content region of the content scenarios
MaxBlocks == 2
\* most titles, and most tab blocks, of a tab view
MaxTabs == 2
\* most revision rows of a history table
MaxRevs == 2
\* most content passes applied by hand to one tree
MaxPasses == 2

----------------------------------------------------------------------------
(* Results of calls: a value, or the exception that left the call.         *)

Ok(v) == [ok |-> TRUE, val |-> v, err |-> ""]

Err(e) == [ok |-> FALSE, val |-> <<>>, err |-> e]

----------------------------------------------------------------------------
(* Documents.                                                              *)

Txt(s, n) == [s |-> s, n |-> n]

NoAttrs == [k \in {} |-> ""]

Elem(name, attrs, kids) == [name |-> name, attrs |-> attrs, text |-> <<>>, kids |-> kids]

TextNode(t) == [name |-> "#text", attrs |-> NoAttrs, text |-> t, kids |-> <<>>]

\* a decomposed element: bs4 clears it, so that its name reads as None
Decomposed == [name |-> "#gone", attrs |-> NoAttrs, text |-> <<>>, kids |-> <<>>]

has_attr(n, k) == k \in DOMAIN n.attrs

SetAttr(n, k, v) == [n EXCEPT !.attrs = (k :> v) @@ n.attrs]

DelAttr(n, k) == [n EXCEPT !.attrs = [j \in DOMAIN n.attrs \ {k} |-> n.attrs[j]]]

RECURSIVE NodeAt(_, _)
NodeAt(t, p) == IF p = <<>> THEN t ELSE NodeAt(t.kids[Head(p)], Tail(p))

\* whether path p still leads to a live element of t
RECURSIVE Alive(_, _)
Alive(t, p) ==
    IF t.name = "#gone" THEN FALSE
    ELSE IF p = <<>> THEN TRUE
    ELSE Head(p) <= Len(t.kids) /\ Alive(t.kids[Head(p)], Tail(p))

RECURSIVE ReplaceAt(_, _, _)
ReplaceAt(t, p, n) ==
    IF p = <<>> THEN n
    ELSE [t EXCEPT !.kids[Head(p)] = ReplaceAt(@, Tail(p), n)]

\* the paths of the descendants of t (prefixed by pre), in document order
RECURSIVE DescFrom(_, _, _)
DescFrom(t, pre, i) ==
    IF i > Len(t.kids) THEN <<>>
    ELSE <<Append(pre, i)>> \o DescFrom(t.kids[i], Append(pre, i), 1) \o DescFrom(t, pre, i + 1)

Descendants(t, ctx) == DescFrom(NodeAt(t, ctx), ctx, 1)

\* Tag.text / "".join(Tag.strings): every string below n, concatenated
RECURSIVE TextOf(_)
RECURSIVE TextOfSeq(_)
TextOf(n) == IF n.name = "#text" THEN n.text ELSE TextOfSeq(n.kids)

TextOfSeq(ks) == IF ks = <<>> THEN <<>> ELSE TextOf(Head(ks)) \o TextOfSeq(Tail(ks))

\* Tag.string: the single string of n, <<>> standing for None
RECURSIVE StringOf(_)
StringOf(n) ==
    IF n.name = "#text" THEN <<n.text>>
    ELSE IF Len(n.kids) = 1 THEN StringOf(n.kids[1])
    ELSE <<>>

\* the tree without its decomposed elements, as serialization shows it
RECURSIVE Compact(_)
RECURSIVE CompactSeq(_)
Compact(t) == [t EXCEPT !.kids = CompactSeq(t.kids)]

CompactSeq(ks) ==
    IF ks = <<>> THEN <<>>
    ELSE (IF Head(ks).name = "#gone" THEN <<>> ELSE <<Compact(Head(ks))>>) \o CompactSeq(Tail(ks))

----------------------------------------------------------------------------
(* CSS selection (Tag.select).  A selector is a sequence of steps          *)
(* [name, cls, child]: a tag name ("" for any), a class ("" for any) and   *)
(* whether the step is joined to the one before by ">".                    *)

Step(name, cls) == [name |-> name, cls |-> cls, child |-> FALSE]

ChildStep(name, cls) == [name |-> name, cls |-> cls, child |-> TRUE]

StepMatch(n, s) ==
    /\ n.name \notin {"#text", "#gone"}
    /\ s.name = "" \/ n.name = s.name
    /\ s.cls = "" \/ (has_attr(n, "class") /\ n.attrs["class"] = s.cls)

RECURSIVE Matches(_, _, _, _)
Matches(t, ctx, p, sel) ==
    LET k == Len(sel)
    IN  /\ StepMatch(NodeAt(t, p), sel[k])
        /\ \/ k = 1
           \/ /\ k > 1
              /\ IF sel[k].child
                 THEN Len(p) - 1 > Len(ctx) /\ Matches(t, ctx, SubSeq(p, 1, Len(p) - 1), SubSeq(sel, 1, k - 1))
                 ELSE \E j \in (Len(ctx) + 1)..(Len(p) - 1) :
                          Matches(t, ctx, SubSeq(p, 1, j), SubSeq(sel, 1, k - 1))

\* the elements below ctx that match sel, in document order
select(t, ctx, sel) ==
    LET Test(p) == Matches(t, ctx, p, sel)
    IN  SelectSeq(Descendants(t, ctx), Test)

----------------------------------------------------------------------------
(* The content passes of _parse_body.  Each takes the content tree and     *)
(* gives Ok(tree) or the exception it raises.                              *)

\* for i in data.select("div.page-rate-widget-box"): i.decompose()
RECURSIVE DecomposeAll(_, _)
DecomposeAll(t, ps) ==
    IF ps = <<>> THEN t
    ELSE DecomposeAll(IF Alive(t, Head(ps)) THEN ReplaceAt(t, Head(ps), Decomposed) ELSE t, Tail(ps))

RemoveRateWidgets(data) ==
    Compact(DecomposeAll(data, select(data, <<>>, <<Step("div", "page-rate-widget-box")>>)))

TabTitle(s) == Elem("div", [class |-> "tab-title"], <<TextNode(s)>>)

\* tabs.index(k): list.index compares with ==, and two bs4 tags are equal
\* when their names, attributes and contents are; done holds the tabs
\* before k as the loop has left them
TabIndex(done, k) ==
    LET eq == {i \in 1..Len(done) : done[i] = k}
    IN  IF eq = {} THEN Len(done) + 1 ELSE CHOOSE i \in eq : \A j \in eq : i <= j

\* the loop "for k in tabs" of _parse_tabviews
RECURSIVE TabsLoop(_, _, _)
TabsLoop(titles, tabs, done) ==
    IF Len(done) = Len(tabs) THEN Ok(done)
    ELSE LET k == [tabs[Len(done) + 1] EXCEPT !.attrs = [class |-> "tabview-tab"]]
             idx == TabIndex(done, k)
         IN  IF idx > Len(titles) THEN Err("IndexError")
             ELSE TabsLoop(titles, tabs, Append(done, [k EXCEPT !.kids = <<TabTitle(titles[idx])>> \o @]))

RECURSIVE TabviewsLoop(_, _)
TabviewsLoop(t, ps) ==
    IF ps = <<>> THEN Ok(t)
    ELSE LET i == Head(ps)
             ems == select(t, i, <<Step("ul", "yui-nav"), Step("em", "")>>)
             titles == [x \in 1..Len(ems) |-> TextOf(NodeAt(t, ems[x]))]
             tps == select(t, i, <<Step("div", "yui-content"), ChildStep("div", "")>>)
             tabs == [x \in 1..Len(tps) |-> NodeAt(t, tps[x])]
             r == TabsLoop(titles, tabs, <<>>)
         IN  IF ~r.ok THEN Err(r.err)
             ELSE TabviewsLoop(ReplaceAt(t, i, Elem("div", [class |-> "tabview"], r.val)), Tail(ps))

_parse_tabviews(data) == TabviewsLoop(data, select(data, <<>>, <<Step("div", "yui-navset")>>))

\* the body of the loop of _parse_collapsibles for the block at path i
Collapsible(t, i) ==
    LET links == select(t, i, <<Step("a", "collapsible-block-link")>>)
        folded == select(t, i, <<Step("div", "collapsible-block-content")>>)
        unfolded == select(t, i, <<Step("div", "collapsible-block-unfolded")>>)
        Wrap(link_text, content) ==
            Elem("div", [class |-> "collapsible"],
                 << Elem("div", [class |-> "collaps-title"], <<TextNode(link_text)>>),
                    SetAttr(content, "class", "collaps-content") >>)
    IN  IF links = <<>> \/ folded = <<>> THEN Err("IndexError")
        ELSE IF TextOf(NodeAt(t, folded[1])) # <<>>
        THEN Ok(Wrap(TextOf(NodeAt(t, links[1])), NodeAt(t, folded[1])))
        ELSE IF unfolded = <<>> THEN Err("IndexError")
        ELSE LET u == unfolded[1]
                 inner == select(t, u, <<Step("div", "collapsible-block-content")>>)
                 t1 == IF inner = <<>> THEN t ELSE ReplaceAt(t, inner[1], Decomposed)
                 ulink == select(t1, u, <<Step("div", "collapsible-block-unfolded-link")>>)
             IN  IF inner = <<>> \/ ulink = <<>> THEN Err("IndexError")
                 ELSE Ok(Wrap(TextOf(NodeAt(t, links[1])),
                              Compact(DelAttr(NodeAt(ReplaceAt(t1, ulink[1], Decomposed), u), "style"))))

RECURSIVE CollapsiblesLoop(_, _)
CollapsiblesLoop(t, ps) ==
    IF ps = <<>> THEN Ok(t)
    ELSE LET r == Collapsible(t, Head(ps))
         IN  IF ~r.ok THEN Err(r.err)
             ELSE CollapsiblesLoop(ReplaceAt(t, Head(ps), r.val), Tail(ps))

_parse_collapsibles(data) ==
    CollapsiblesLoop(data, select(data, <<>>, <<Step("div", "collapsible-block")>>))

\* for i in data.select("sup.footnoteref"): i.string = i.a.string
RECURSIVE FootnoteRefLoop(_, _)
FootnoteRefLoop(t, ps) ==
    IF ps = <<>> THEN Ok(t)
    ELSE LET i == Head(ps)
             as == select(t, i, <<Step("a", "")>>)
         IN  IF as = <<>> THEN Err("AttributeError")
             ELSE LET s == StringOf(NodeAt(t, as[1]))
                  IN  IF s = <<>> THEN Err("TypeError")
                      ELSE FootnoteRefLoop(
                               ReplaceAt(t, i, [NodeAt(t, i) EXCEPT !.kids = <<TextNode(s[1])>>]),
                               Tail(ps))

\* for i in data.select("sup.footnote-footer"): ...
RECURSIVE FootnoteFooterLoop(_, _)
FootnoteFooterLoop(t, ps) ==
    IF ps = <<>> THEN t
    ELSE LET i == NodeAt(t, Head(ps))
             j == [DelAttr(SetAttr(i, "class", "footnote"), "id") EXCEPT !.kids = <<TextNode(TextOf(i))>>]
         IN  FootnoteFooterLoop(ReplaceAt(t, Head(ps), j), Tail(ps))

_parse_footnotes(data) ==
    LET r == FootnoteRefLoop(data, select(data, <<>>, <<Step("sup", "footnoteref")>>))
    IN  IF ~r.ok THEN Err(r.err)
        ELSE Ok(FootnoteFooterLoop(r.val, select(r.val, <<>>, <<Step("sup", "footnote-footer")>>)))

RECURSIVE LinksLoop(_, _)
LinksLoop(t, ps) ==
    IF ps = <<>> THEN t
    ELSE LET i == DelAttr(NodeAt(t, Head(ps)), "href")
         IN  LinksLoop(ReplaceAt(t, Head(ps), SetAttr([i EXCEPT !.name = "span"], "class", "link")), Tail(ps))

_parse_links(data) == Ok(LinksLoop(data, select(data, <<>>, <<Step("a", "")>>)))

RECURSIVE QuotesLoop(_, _)
QuotesLoop(t, ps) ==
    IF ps = <<>> THEN t
    ELSE LET i == NodeAt(t, Head(ps))
         IN  QuotesLoop(ReplaceAt(t, Head(ps), SetAttr([i EXCEPT !.name = "div"], "class", "quote")), Tail(ps))

_parse_quotes(data) == Ok(QuotesLoop(data, select(data, <<>>, <<Step("blockquote", "")>>)))

\* an image source: the path segments of the url text between "/", or,
\* once rewritten, the text images/{segs[1]}_{segs[2]}
Src(segs) == [local |-> FALSE, segs |-> segs]

\* page, image_url = i["src"].split("/")[-2:]; "images/{}_{}".format(...)
LocalSrc(src) ==
    [local |-> TRUE, segs |-> <<src.segs[Len(src.segs) - 1], src.segs[Len(src.segs)]>>]

old_style(t, p) ==
    /\ select(t, p, <<Step("table", ""), Step("tr", ""), Step("td", ""), Step("img", "")>>) # <<>>
    /\ Len(select(t, p, <<Step("table", ""), Step("tr", ""), Step("td", "")>>)) = 1

new_style(t, p) ==
    has_attr(NodeAt(t, p), "class") /\ NodeAt(t, p).attrs["class"] = "scp-image-block"

\* for p in i.parents, from p upwards: the first parent to cut, if any.  The
\* parents above the content region are left out: they hold the same tables
\* as the region and carry no class, so none is cut unless the region is.
RECURSIVE FindWrapper(_, _)
FindWrapper(t, p) ==
    IF old_style(t, p) \/ new_style(t, p) THEN <<p>>
    ELSE IF p = <<>> THEN <<>>
    ELSE FindWrapper(t, SubSeq(p, 1, Len(p) - 1))

\* the loop of _parse_images over data.select('img'); st = [data, images]
RECURSIVE ImagesLoop(_, _, _)
ImagesLoop(st, ps, images) ==
    IF ps = <<>> THEN Ok(st)
    ELSE LET p == Head(ps)
             t == st.data
         IN  IF ~Alive(t, p) THEN ImagesLoop(st, Tail(ps), images)
             ELSE IF ~has_attr(NodeAt(t, p), "src") THEN ImagesLoop(st, Tail(ps), images)
             ELSE LET i == NodeAt(t, p)
                      w == FindWrapper(t, SubSeq(p, 1, Len(p) - 1))
                  IN  IF i.attrs["src"] \notin images
                      THEN ImagesLoop([st EXCEPT !.data = ReplaceAt(t, IF w = <<>> THEN p ELSE w[1], Decomposed)],
                                      Tail(ps), images)
                      ELSE IF Len(i.attrs["src"].segs) < 2 THEN Err("ValueError")
                      ELSE ImagesLoop([data |-> ReplaceAt(t, p, SetAttr(i, "src", LocalSrc(i.attrs["src"]))),
                                       images |-> Append(st.images, i.attrs["src"])],
                                      Tail(ps), images)

\* gives Ok([data, images]): the tree and the list self.images
_parse_images(data, images) ==
    LET r == ImagesLoop([data |-> data, images |-> <<>>], select(data, <<>>, <<Step("img", "")>>), images)
    IN  IF ~r.ok THEN Err(r.err)
        ELSE Ok([data |-> Compact(r.val.data), images |-> r.val.images])

\* Python's None, and str(None) as format() writes it
None == [isNone |-> TRUE]

NoneText == TextNode(<<Txt("None", 0)>>)

\* one pass of _parse_body by name
ApplyPass(name, data) ==
    CASE name = "tabviews" -> _parse_tabviews(data)
      [] name = "collapsibles" -> _parse_collapsibles(data)
      [] name = "footnotes" -> _parse_footnotes(data)
      [] name = "links" -> _parse_links(data)
      [] name = "quotes" -> _parse_quotes(data)

\* the passes of _parse_body before _parse_images, in its order
BodyPasses == <<"tabviews", "collapsibles", "footnotes", "links", "quotes">>

\* data = self._parse_x(data) for each pass in turn; an exception ends it
RECURSIVE RunPasses(_, _)
RECURSIVE RunNext(_, _)
RunPasses(data, names) ==
    IF names = <<>> THEN Ok(data) ELSE RunNext(ApplyPass(Head(names), data), Tail(names))

RunNext(r, names) == IF ~r.ok THEN Err(r.err) ELSE RunPasses(r.val, names)

\* self.data = str(data): str() of a decomposed tag fails
BodyStr(r) ==
    IF ~r.ok THEN Err(r.err)
    ELSE IF r.val.data.name = "#gone" THEN Err("AttributeError")
    ELSE Ok([data |-> [isNone |-> FALSE, body |-> r.val.data], images |-> r.val.images])

BodyImages(r, images) == IF ~r.ok THEN Err(r.err) ELSE BodyStr(_parse_images(r.val, images))

\* _parse_body: Ok([data, images]); data is None or [isNone, body], with
\* body the tree that str(data) serializes
_parse_body(html, images) ==
    IF html.content = <<>> THEN Ok([data |-> None, images |-> <<>>])
    ELSE BodyImages(RunPasses(RemoveRateWidgets(html.content[1]), BodyPasses), images)

----------------------------------------------------------------------------
(* Urls.                                                                   *)

Href(lead, path, n, ext, bars) == [lead |-> lead, path |-> path, n |-> n, ext |-> ext, bars |-> bars]

\* "http://www.scp-wiki.net{}".format(href)
UrlOf(href) == [site |-> "http://www.scp-wiki.net", href |-> href]

\* "http://www.scp-wiki.net/" + partial_url
PageUrl(partial_url) == UrlOf(Href("/", partial_url, 0, "", 0))

\* url.rstrip("|")
rstrip(url) == [url EXCEPT !.href.bars = 0]

\* range(2, 11) of the scp-2998 entry of ov_children
RangeFirst == 2

RangeLast == 10

\* "{}-{}".format(self.url, n)
SuffixUrl(url, n) == [url EXCEPT !.href.n = n]

\* the page names whose text ends as [scp]+-[0-9]+$ asks
NumberedNames == {"scp-2998"}

IsNumbered(url) ==
    url.href.path \in NumberedNames /\ url.href.n = 0 /\ url.href.ext = "" /\ url.href.bars = 0

SeqRange(q) == {q[i] : i \in 1..Len(q)}

----------------------------------------------------------------------------
(* Snapshot accessors.  A snapshot S holds the tables                      *)
(*   S.pages    url -> [html, history, votes]      (DBPage)                *)
(*   S.images   the image urls of the catalog      (DBImage)               *)
(*   S.rewrites url -> [author, override]          (DBRewrite)             *)
(*   S.titles   url -> title, S.skips name -> title (DBTitle)              *)
(* with html = [title, rating, discuss, tags, crumbs, content], each of    *)
(* title, rating, discuss, content a sequence of at most one element;      *)
(* discuss is the button text [label, digits], a revision number the cell  *)
(* text [digits, dots].                                                    *)

pagedata(S, url) ==
    IF url \in DOMAIN S.pages THEN Ok(S.pages[url]) ELSE Err("DBPage.DoesNotExist")

rewrite(S, url) ==
    IF url \in DOMAIN S.rewrites THEN <<S.rewrites[url]>> ELSE <<>>

title(S, url) ==
    IF url \in DOMAIN S.titles THEN Ok(S.titles[url])
    ELSE IF url.href.path \in DOMAIN S.skips THEN Ok(S.skips[url.href.path])
    ELSE Err("DBTitle.DoesNotExist")

----------------------------------------------------------------------------
(* Page: the parsing methods.                                              *)

_parse_title(S, html, tags, url) ==
    LET own == IF html.title # <<>> THEN html.title[1] ELSE <<>>
        t == title(S, url)
    IN  IF "scp" \in SeqRange(tags) /\ IsNumbered(url)
        THEN (IF t.ok THEN Ok(own \o <<Txt(": ", 0)>> \o t.val) ELSE Err(t.err))
        ELSE Ok(own)

\* the fields _parse_html sets, from the body b and the title t
HtmlFields(html, b, t) ==
    IF ~b.ok THEN Err(b.err)
    ELSE IF ~t.ok THEN Err(t.err)
    ELSE Ok([rating |-> html.rating,
             comments |-> IF html.discuss # <<>> /\ html.discuss[1].digits # <<>>
                          THEN html.discuss[1].digits[1] ELSE 0,
             images |-> b.val.images,
             tags |-> html.tags,
             title |-> t.val,
             data |-> [isNone |-> FALSE,
                       cls |-> IF "scp" \in SeqRange(html.tags) THEN "scp-title" ELSE "tale-title",
                       title |-> t.val,
                       body |-> IF b.val.data.isNone THEN NoneText ELSE b.val.data.body]])

_parse_html(S, html, url) ==
    HtmlFields(html, _parse_body(html, S.images), _parse_title(S, html, html.tags, url))

\* soup.select('tr')[1:], then reversed: oldest revision first
RECURSIVE Reversed(_)
Reversed(q) == IF q = <<>> THEN <<>> ELSE Append(Reversed(Tail(q)), Head(q))

_parse_history(raw_history) ==
    LET rows == IF raw_history = <<>> THEN <<>> ELSE Tail(raw_history)
        Revision(r) == [number |-> r.number.digits, user |-> r.user,
                        time |-> [y |-> r.time.y, mon |-> r.time.mon, d |-> r.time.d,
                                  h |-> r.time.h, m |-> r.time.m, s |-> 0],
                        comment |-> r.comment]
    IN  Reversed([i \in 1..Len(rows) |-> Revision(rows[i])])

_parse_votes(raw_votes) == [i \in 1..Len(raw_votes) |-> [user |-> raw_votes[i].user, vote |-> raw_votes[i].vote]]

\* _meta_authors returning both authors whatever rewrite.override is
AppendRewrite(S, history, url) ==
    LET rw == rewrite(S, url)
    IN  IF history = <<>> THEN Err("IndexError")
        ELSE IF rw # <<>>
        THEN Ok(<<[username |-> history[1].user, status |-> "original"],
                  [username |-> rw[1].author, status |-> "rewrite"]>>)
        ELSE Ok(<<[username |-> history[1].user, status |-> "original"]>>)

_meta_authors(S, history, url) ==
    LET rw == rewrite(S, url)
    IN  IF history = <<>> THEN Err("IndexError")
        ELSE IF rw # <<>>
        THEN (IF rw[1].override
              THEN Ok(<<[username |-> rw[1].author, status |-> "original"]>>)
              ELSE Ok(<<[username |-> history[1].user, status |-> "original"],
                        [username |-> rw[1].author, status |-> "rewrite"]>>))
        ELSE Ok(<<[username |-> history[1].user, status |-> "original"]>>)

----------------------------------------------------------------------------
(* Page: links(), children(), the constructor and _override.  d is the     *)
(* depth of Python calls left before the interpreter raises                *)
(* RecursionError.                                                         *)

\* recursion depth the interpreter allows, counted in Page() calls
MaxDepth == 5

IsEmptyHref(h) == h.lead = "" /\ h.path = "" /\ h.n = 0 /\ h.ext = "" /\ h.bars = 0

\* a["href"][-4:] in [".png", ".jpg", ".gif"]
IsImageHref(h) == h.bars = 0 /\ h.ext \in {".png", ".jpg", ".gif"}

\* the loop of links() over soup.select("#page-content a")
RECURSIVE LinksCollect(_, _)
LinksCollect(as, found) ==
    IF as = <<>> THEN Ok(found)
    ELSE LET a == Head(as)
         IN  IF ~has_attr(a, "href") THEN LinksCollect(Tail(as), found)
             ELSE IF IsEmptyHref(a.attrs["href"]) THEN Err("IndexError")
             ELSE IF a.attrs["href"].lead # "/" THEN LinksCollect(Tail(as), found)
             ELSE IF IsImageHref(a.attrs["href"]) THEN LinksCollect(Tail(as), found)
             ELSE LET url == rstrip(UrlOf(a.attrs["href"]))
                  IN  IF url \in SeqRange(found) THEN LinksCollect(Tail(as), found)
                      ELSE LinksCollect(Tail(as), Append(found, url))

links(self) ==
    IF self.raw_html.content = <<>> THEN Ok(<<>>)
    ELSE LET c == self.raw_html.content[1]
             ps == select(c, <<>>, <<Step("a", "")>>)
         IN  LinksCollect([i \in 1..Len(ps) |-> NodeAt(c, ps[i])], <<>>)

\* backlinks() taking any entry of the breadcrumbs for the last one
AnyCrumb(self, child) ==
    LET l == links(child)
        crumbs == child.raw_html.crumbs
    IN  IF ~l.ok THEN Err(l.err)
        ELSE Ok(\/ self.url \in SeqRange(l.val)
                \/ \E i \in 1..Len(crumbs) : UrlOf(crumbs[i]) = self.url)

\* backlinks(page, child) inside children(), page being self
backlinks(self, child) ==
    LET l == links(child)
        crumbs == child.raw_html.crumbs
    IN  IF ~l.ok THEN Err(l.err)
        ELSE Ok(\/ self.url \in SeqRange(l.val)
                \/ crumbs # <<>> /\ UrlOf(crumbs[Len(crumbs)]) = self.url)

\* the backlinks() of each page of mpages, or the first exception
RECURSIVE BacklinksAll(_, _)
BacklinksAll(self, mpages) ==
    IF mpages = <<>> THEN Ok(<<>>)
    ELSE LET b == backlinks(self, Head(mpages))
             r == BacklinksAll(self, Tail(mpages))
         IN  IF ~b.ok THEN Err(b.err)
             ELSE IF ~r.ok THEN Err(r.err)
             ELSE Ok(<<b.val>> \o r.val)

\* the tag test with its sense reversed
HasNone(tags, wanted) == SeqRange(tags) \cap wanted = {}

HasAny(tags, wanted) == SeqRange(tags) \cap wanted # {}

Pick(q, keep) == LET Test(i) == keep[i] IN [j \in 1..Len(SelectSeq([i \in 1..Len(q) |-> i], Test)) |-> q[SelectSeq([i \in 1..Len(q) |-> i], Test)[j]]]

RECURSIVE Page(_, _, _)
RECURSIVE ResolveLinks(_, _, _, _, _)
RECURSIVE children_method(_, _, _)
RECURSIVE _inrange(_, _, _, _)

\* the turn of the loop without the test of p.data
ResolveKeep(S, self, urls, lpages, d, p) ==
    IF ~p.ok /\ p.err = "DBPage.DoesNotExist" THEN ResolveLinks(S, self, Tail(urls), lpages, d)
    ELSE IF ~p.ok THEN Err(p.err)
    ELSE ResolveLinks(S, self, Tail(urls), Append(lpages, p.val), d)

\* one turn of the loop of children() with p = Page(url) or its exception
ResolveNext(S, self, urls, lpages, d, p) ==
    IF ~p.ok /\ p.err = "DBPage.DoesNotExist" THEN ResolveLinks(S, self, Tail(urls), lpages, d)
    ELSE IF ~p.ok THEN Err(p.err)
    ELSE IF ~p.val.data.isNone THEN ResolveLinks(S, self, Tail(urls), Append(lpages, p.val), d)
    ELSE ResolveLinks(S, self, Tail(urls), lpages, d)

\* the loop "for url in self.links()" of children(): lpages
ResolveLinks(S, self, urls, lpages, d) ==
    IF urls = <<>> THEN Ok(lpages)
    ELSE ResolveNext(S, self, urls, lpages, d, Page(S, Head(urls), d))

\* the hub branch without the backlink filter
AllCandidates(mpages, bl) == IF ~bl.ok THEN Err(bl.err) ELSE Ok(mpages)

\* the hub branch: the confirmed pages of mpages if any, else mpages
HubChildren(mpages, bl) ==
    IF ~bl.ok THEN Err(bl.err)
    ELSE IF \E i \in 1..Len(mpages) : bl.val[i] THEN Ok(Pick(mpages, bl.val))
    ELSE Ok(mpages)

\* the filter of the scp branch letting every page through
AnyPage(i) == TRUE

IsSupplement(i) == HasAny(i.tags, {"supplement", "splash"})

IsTale(i) == HasAny(i.tags, {"tale", "goi-format", "goi2014"})

\* children() from lpages on
ChildrenOf(self, lp) ==
    IF ~lp.ok THEN Err(lp.err)
    ELSE IF HasAny(self.tags, {"scp", "splash"}) THEN Ok(SelectSeq(lp.val, IsSupplement))
    ELSE IF "hub" \in SeqRange(self.tags) /\ HasAny(self.tags, {"tale", "goi2014"})
    THEN HubChildren(SelectSeq(lp.val, IsTale), BacklinksAll(self, SelectSeq(lp.val, IsTale)))
    ELSE Ok(<<>>)

ChildrenOfLinks(S, self, l, d) ==
    IF ~l.ok THEN Err(l.err) ELSE ChildrenOf(self, ResolveLinks(S, self, l.val, <<>>, d))

\* Page.children as the class defines it
children_method(S, self, d) ==
    IF ~HasAny(self.tags, {"scp", "hub", "goi2014", "splash"}) THEN Ok(<<>>)
    ELSE ChildrenOfLinks(S, self, links(self), d)

InRangeCons(p, r) ==
    IF ~p.ok THEN Err(p.err)
    ELSE IF ~r.ok THEN Err(r.err)
    ELSE Ok(<<p.val>> \o r.val)

\* _inrange: [Page("{}-{}".format(self.url, n)) for n in range(n, last + 1)]
_inrange(S, self, n, d) ==
    IF n > RangeLast THEN Ok(<<>>)
    ELSE InRangeCons(Page(S, SuffixUrl(self.url, n), d), _inrange(S, self, n + 1, d))

ExceptUrl(c, x) ==
    LET Keep(p) == p.url # PageUrl(x)
    IN  IF ~c.ok THEN Err(c.err) ELSE Ok(SelectSeq(c.val, Keep))

\* _except: [p for p in self.children() if p.url != site + x]
_except(S, self, x, d) == ExceptUrl(children_method(S, self, d), x)

\* self.children = lambda: new_children
Install(self, new_children) ==
    IF ~new_children.ok THEN Err(new_children.err)
    ELSE Ok([self EXCEPT !.children = <<new_children.val>>])

\* _override with an empty ov_children
NoOverride(S, self, d) == Ok(self)

\* the loop of _override over ov_children
OverrideChildren(S, self, d) ==
    IF self.url = PageUrl("scp-2998") THEN Install(self, _inrange(S, self, RangeFirst, d))
    ELSE IF self.url = PageUrl("wills-and-ways-hub")
    THEN Install(self, _except(S, self, "marshall-carter-and-dark-hub", d))
    ELSE IF self.url = PageUrl("serpent-s-hand-hub")
    THEN Install(self, _except(S, self, "black-queen-hub", d))
    ELSE IF self.url = PageUrl("chicago-spirit-hub") THEN Install(self, Ok(<<>>))
    ELSE Ok(self)

\* the loop of _override over ov_data
OverrideData(self) ==
    IF self.url = PageUrl("scp-1047-j") THEN [self EXCEPT !.data = None] ELSE self

_override(S, self, d) == OverrideChildren(S, OverrideData(self), d)

\* __init__ after _parse_html gave h
PageInit(S, url, pd, h, d) ==
    LET history == IF pd.history # <<>> THEN _parse_history(pd.history[1]) ELSE <<>>
        authors == IF pd.history # <<>> THEN _meta_authors(S, history, url) ELSE Ok(<<>>)
        votes == IF pd.votes # <<>> THEN _parse_votes(pd.votes[1]) ELSE <<>>
    IN  IF ~h.ok THEN Err(h.err)
        ELSE IF ~authors.ok THEN Err(authors.err)
        ELSE _override(S, [url |-> url, data |-> h.val.data, rating |-> h.val.rating,
                           images |-> h.val.images, history |-> history, authors |-> authors.val,
                           votes |-> votes, comments |-> h.val.comments, tags |-> h.val.tags,
                           title |-> h.val.title, raw_html |-> pd.html, children |-> <<>>],
                       d - 1)

PageFrom(S, url, pd, d) ==
    IF ~pd.ok THEN Err(pd.err) ELSE PageInit(S, url, pd.val, _parse_html(S, pd.val.html, url), d)

\* Page(url), with d calls left; children holds the list an override installs
Page(S, url, d) ==
    IF d = 0 THEN Err("RecursionError") ELSE PageFrom(S, url, pagedata(S, url), d)

\* self.children(): the list an override installed, or the method
children(S, self, d) ==
    IF self.children # <<>> THEN Ok(self.children[1]) ELSE children_method(S, self, d)

----------------------------------------------------------------------------
(* Snapshots of the relationship scenarios: one page under test, with any  *)
(* of RootTags and any sequence of links to the pages of Targets, beside   *)
(* the pages it links to and, for scp-2998, the pages of its range.        *)

Anchor(href) == Elem("a", [href |-> href], <<TextNode(<<Txt("link", 0)>>)>>)

LinkTo(name) == Href("/", name, 0, "", 0)

Content(kids) == Elem("div", [id |-> "page-content"], kids)

Html(tags, crumbs, content) ==
    [title |-> <<<<Txt("title", 0)>>>>, rating |-> <<>>, discuss |-> <<>>,
     tags |-> tags, crumbs |-> crumbs, content |-> content]

Record(html) == [html |-> html, history |-> <<>>, votes |-> <<>>]

LinkPage(tags, crumbs, names) ==
    Record(Html(tags, crumbs, <<Content([i \in 1..Len(names) |-> Anchor(LinkTo(names[i]))])>>))

RootNames == {"page-r", "scp-2998", "wills-and-ways-hub", "serpent-s-hand-hub", "chicago-spirit-hub"}

RootTags ==
    { <<"tale">>, <<"hub">>, <<"hub", "tale">>, <<"goi2014", "hub">>, <<"scp">>,
      <<"splash", "hub", "tale">> }

\* the names a page under test may link to; "missing-m" has no record
Targets ==
    { "tale-a", "tale-b", "goi-c", "supp-s", "blank-n", "scp-1047-j", "missing-m",
      "serpent-s-hand-hub", "marshall-carter-and-dark-hub" }

\* the pages the page under test r may link to; the breadcrumbs of tale-a
\* name r, but not last
Library(r) ==
    (PageUrl("tale-a") :> LinkPage(<<"tale">>, <<LinkTo(r), LinkTo("tale-b")>>, <<>>))
    @@ (PageUrl("tale-b") :> LinkPage(<<"tale">>, <<>>, <<"tale-a", r>>))
    @@ (PageUrl("goi-c") :> LinkPage(<<"goi-format">>, <<LinkTo("tale-a"), LinkTo(r)>>, <<>>))
    @@ (PageUrl("supp-s") :> LinkPage(<<"supplement">>, <<>>, <<>>))
    @@ (PageUrl("blank-n") :> Record(Html(<<"supplement", "tale">>, <<>>, <<>>)))
    @@ (PageUrl("scp-1047-j") :> LinkPage(<<"joke", "supplement", "tale">>, <<>>, <<r>>))
    @@ (PageUrl("serpent-s-hand-hub") :> LinkPage(<<"hub", "goi2014">>, <<>>, <<"wills-and-ways-hub", "tale-a">>))
    @@ (PageUrl("marshall-carter-and-dark-hub") :> LinkPage(<<"hub", "tale">>, <<>>, <<r>>))

\* the pages scp-2998-2 .. scp-2998-10, all but the one numbered without
RangePages(without) ==
    [u \in {SuffixUrl(PageUrl("scp-2998"), n) : n \in (RangeFirst..RangeLast) \ {without}} |->
        LinkPage(<<"scp">>, <<>>, <<>>)]

ChildSnapshot(r, tags, names, without) ==
    [pages |-> (PageUrl(r) :> LinkPage(tags, <<>>, names))
               @@ [u \in {PageUrl(n) : n \in SeqRange(names) \cup {"tale-a"}} \cap DOMAIN Library(r) |->
                      Library(r)[u]]
               @@ (IF r = "scp-2998" THEN RangePages(without) ELSE [u \in {} |-> <<>>]),
     images |-> {},
     rewrites |-> [u \in {} |-> [author |-> "", override |-> FALSE]],
     titles |-> [u \in {} |-> <<>>],
     skips |-> [n \in {"scp-2998"} |-> <<Txt("Title of 2998", 0)>>]]

SeqsUpTo(S, n) == UNION {[1..k -> S] : k \in 0..n}

----------------------------------------------------------------------------
(* The relationship scenarios: a caller constructs the page and calls      *)
(* children() and links() on it.                                           *)

UrlsOf(pages) == [i \in 1..Len(pages) |-> pages[i].url]

Init ==
    /\ \E r \in RootNames, tags \in RootTags, names \in SeqsUpTo(Targets, MaxLinks) :
           \E without \in (IF r = "scp-2998" /\ tags = <<"scp">> THEN {0, RangeFirst + 1} ELSE {0}) :
               /\ sn = ChildSnapshot(r, tags, names, without)
               /\ req = PageUrl(r)
    /\ page = <<>>
    /\ ret = <<>>
    /\ dom = <<>>
    /\ log = <<>>

\* p = Page(req)
Construct ==
    /\ page = <<>>
    /\ page' = <<Page(sn, req, MaxDepth)>>
    /\ UNCHANGED <<sn, req, ret, dom, log>>

\* p.children()
CallChildren ==
    /\ page # <<>> /\ page[1].ok
    /\ LET c == children(sn, page[1].val, MaxDepth - 1)
       IN  ret' = <<[op |-> "children", ok |-> c.ok, err |-> c.err,
                     val |-> IF c.ok THEN UrlsOf(c.val) ELSE <<>>]>>
    /\ UNCHANGED <<sn, req, page, dom, log>>

\* p.links()
CallLinks ==
    /\ page # <<>> /\ page[1].ok
    /\ LET l == links(page[1].val)
       IN  ret' = <<[op |-> "links", ok |-> l.ok, err |-> l.err, val |-> l.val]>>
    /\ UNCHANGED <<sn, req, page, dom, log>>

Next == Construct \/ CallChildren \/ CallLinks

Spec == Init /\ [][Next]_vars

----------------------------------------------------------------------------
(* Properties of children() in the relationship scenarios.  They compare   *)
(* what children() returned with the children that section 4.4 of the      *)
(* specification describes, computed here from the snapshot.               *)

Constructed == page # <<>> /\ page[1].ok

ChildrenReturned == Constructed /\ ret # <<>> /\ ret[1].op = "children"

RelationTags == {"scp", "hub", "goi2014", "splash"}

\* the urls of the entries of the children overrides
OverrideUrls ==
    { PageUrl("scp-2998"), PageUrl("wills-and-ways-hub"), PageUrl("serpent-s-hand-hub"),
      PageUrl("chicago-spirit-hub") }

\* the urls the page under test links to, in first-seen order
LinkUrls == links(page[1].val).val

TagsOf(u) == SeqRange(sn.pages[u].html.tags)

HasContent(p) == p.ok /\ ~p.val.data.isNone

\* u has a record and the page constructed from it has content
Resolved(u) == u \in DOMAIN sn.pages /\ HasContent(Page(sn, u, MaxDepth - 1))

\* u is a target that resolution skips: no record, or a page with absent content
IsAbsent(p) == p.ok /\ p.val.data.isNone

Skipped(u) == u \notin DOMAIN sn.pages \/ IsAbsent(Page(sn, u, MaxDepth - 1))

Candidate(u) == Resolved(u) /\ TagsOf(u) \cap {"tale", "goi-format", "goi2014"} # {}

Supplement(u) == Resolved(u) /\ TagsOf(u) \cap {"supplement", "splash"} # {}

\* the hub's url is among u's own links, or is the last entry of u's breadcrumbs
Confirmed(u) ==
    LET h == sn.pages[u].html
    IN  \/ req \in SeqRange(links([raw_html |-> h]).val)
        \/ h.crumbs # <<>> /\ UrlOf(h.crumbs[Len(h.crumbs)]) = req

Candidates == SelectSeq(LinkUrls, Candidate)

HubRule == IF \E i \in 1..Len(Candidates) : Confirmed(Candidates[i])
           THEN SelectSeq(Candidates, Confirmed) ELSE Candidates

IsHubCase ==
    /\ "hub" \in SeqRange(page[1].val.tags)
    /\ SeqRange(page[1].val.tags) \cap {"tale", "goi2014"} # {}
    /\ SeqRange(page[1].val.tags) \cap {"scp", "splash"} = {}

\* the children of section 4.4, from the tags and links of the page under test
NormalChildren ==
    IF SeqRange(page[1].val.tags) \cap RelationTags = {} THEN <<>>
    ELSE IF SeqRange(page[1].val.tags) \cap {"scp", "splash"} # {} THEN SelectSeq(LinkUrls, Supplement)
    ELSE IF IsHubCase THEN HubRule
    ELSE <<>>

RangeUrls == [i \in 1..(RangeLast - RangeFirst + 1) |-> SuffixUrl(req, RangeFirst + i - 1)]

Returned(val) == ret[1].ok /\ ret[1].val = val

\* C1 as stated: children() of a constructed page whose tags share no member
\* with {scp, hub, goi2014, splash} returns the empty list, whatever it links to.
C1_EmptyWithoutRelationTags ==
    (ChildrenReturned /\ SeqRange(page[1].val.tags) \cap RelationTags = {}) => Returned(<<>>)

\* C1, amended: children() of a constructed page whose tags share no member
\* with {scp, hub, goi2014, splash} returns the empty list whatever the page
\* links to, unless its url is the one of the numeric-range override
\* (scp-2998), for which it returns the pages of the range.
C1_EmptyWithoutRelationTagsUnlessRange ==
    (ChildrenReturned /\ SeqRange(page[1].val.tags) \cap RelationTags = {})
        => Returned(IF req = PageUrl("scp-2998") THEN RangeUrls ELSE <<>>)

\* a page without relation tags that links to resolvable pages got no children
C1_Witness ==
    /\ ChildrenReturned
    /\ SeqRange(page[1].val.tags) \cap RelationTags = {}
    /\ req # PageUrl("scp-2998")
    /\ \E i \in 1..Len(LinkUrls) : Resolved(LinkUrls[i])
    /\ Returned(<<>>)

\* C2 as stated: for a page tagged hub and also tale or goi2014 (and not scp
\* or splash), children() returns the backlink-confirmed candidates in link
\* order if there is one, and all tag-matched candidates in link order if not.
C2_HubFallback == (ChildrenReturned /\ IsHubCase) => Returned(HubRule)

\* C2, amended: the same, for a page whose url matches no entry of the
\* children overrides.
C2_HubFallbackWithoutOverride ==
    (ChildrenReturned /\ IsHubCase /\ req \notin OverrideUrls) => Returned(HubRule)

\* a hub with two candidates, one of them confirmed, got the confirmed one
C2_Witness ==
    /\ ChildrenReturned /\ IsHubCase /\ req \notin OverrideUrls
    /\ Len(Candidates) = 2
    /\ Confirmed(Candidates[2]) /\ ~Confirmed(Candidates[1])
    /\ Returned(<<Candidates[2]>>)

\* C3: for a url that matches a children-override entry, children() on the
\* constructed page returns the list of the entry's strategy: the pages of the
\* numeric suffix range, the normally resolved children without the excluded
\* url, or the empty list, whatever link-based resolution gives for the page.
C3_OverridePrecedence ==
    (ChildrenReturned /\ req \in OverrideUrls) =>
        Returned(CASE req = PageUrl("scp-2998") -> RangeUrls
                   [] req = PageUrl("wills-and-ways-hub") ->
                          LET Keep(u) == u # PageUrl("marshall-carter-and-dark-hub")
                          IN  SelectSeq(NormalChildren, Keep)
                   [] req = PageUrl("serpent-s-hand-hub") ->
                          LET Keep(u) == u # PageUrl("black-queen-hub")
                          IN  SelectSeq(NormalChildren, Keep)
                   [] req = PageUrl("chicago-spirit-hub") -> <<>>)

\* wills-and-ways-hub, whose link-based children hold the excluded hub, got
\* its children without it
C3_Witness ==
    /\ ChildrenReturned /\ req = PageUrl("wills-and-ways-hub")
    /\ PageUrl("marshall-carter-and-dark-hub") \in SeqRange(NormalChildren)
    /\ Len(NormalChildren) = 2
    /\ ret[1].ok /\ Len(ret[1].val) = 1
    /\ PageUrl("marshall-carter-and-dark-hub") \notin SeqRange(ret[1].val)

----------------------------------------------------------------------------
(* The author scenarios: one page with a history table of up to MaxRevs    *)
(* revisions, newest first as the wiki lists them, or with no history, and *)
(* any rewrite entry.                                                      *)

Users == {"alice", "bob", "carol"}

HeaderRow == [number |-> [digits |-> <<>>, dots |-> 0], user |-> "", comment |-> <<>>,
              time |-> [y |-> 0, mon |-> 0, d |-> 0, h |-> 0, m |-> 0]]

RevisionRow(n, user) ==
    [number |-> [digits |-> n, dots |-> 1], user |-> user, comment |-> <<>>,
     time |-> [y |-> 2014, mon |-> 1, d |-> 1 + n, h |-> 12, m |-> 30]]

\* the table of revisions Len(users) - 1 .. 0 by users, under its header row
HistoryTable(users) ==
    <<HeaderRow>> \o [i \in 1..Len(users) |-> RevisionRow(Len(users) - i, users[i])]

VoteList == <<[user |-> "carol", vote |-> "+"], [user |-> "bob", vote |-> "-"]>>

NoRewrites == [u \in {} |-> [author |-> "", override |-> FALSE]]

Rewrites == {[author |-> a, override |-> o] : a \in {"alice", "bob"}, o \in BOOLEAN}

AuthorSnapshot(r, history, rw) ==
    [pages |-> (PageUrl(r) :> [html |-> Html(<<"tale">>, <<>>, <<Content(<<>>)>>),
                               history |-> history, votes |-> <<VoteList>>]),
     images |-> {},
     rewrites |-> IF rw = <<>> THEN NoRewrites ELSE (PageUrl(r) :> rw[1]),
     titles |-> [u \in {} |-> <<>>],
     skips |-> [n \in {} |-> <<>>]]

InitAuthors ==
    /\ \E users \in SeqsUpTo(Users, MaxRevs), rw \in SeqsUpTo(Rewrites, 1), some \in BOOLEAN :
           /\ some \/ users = <<>>
           /\ sn = AuthorSnapshot("page-h", IF some THEN <<HistoryTable(users)>> ELSE <<>>, rw)
           /\ req = PageUrl("page-h")
    /\ page = <<>>
    /\ ret = <<>>
    /\ dom = <<>>
    /\ log = <<>>

SpecAuthors == InitAuthors /\ [][Next]_vars

\* the revision rows of the raw history table of the page under test
RawRevisions == Tail(sn.pages[req].history[1])

HasRevisions == sn.pages[req].history # <<>> /\ Len(sn.pages[req].history[1]) > 1

\* the user of the revision with the least number
EarliestUser ==
    LET r == CHOOSE r \in SeqRange(RawRevisions) :
                 \A q \in SeqRange(RawRevisions) : r.number.digits <= q.number.digits
    IN  r.user

Author(u, status) == [username |-> u, status |-> status]

\* C4: for a page with history whose earliest revision's user is u, authors is
\* [(u, original)] with no rewrite entry for the url, [(u, original),
\* (b, rewrite)] with a rewrite entry (b, override=false), and [(b, original)]
\* with a rewrite entry (b, override=true).
C4_Authors ==
    (Constructed /\ HasRevisions) =>
        page[1].val.authors =
            IF req \notin DOMAIN sn.rewrites THEN <<Author(EarliestUser, "original")>>
            ELSE IF sn.rewrites[req].override THEN <<Author(sn.rewrites[req].author, "original")>>
            ELSE <<Author(EarliestUser, "original"), Author(sn.rewrites[req].author, "rewrite")>>

\* a page of two revisions by different users with an overriding rewrite by
\* the later one's user has that user as its one author
C4_Witness ==
    /\ Constructed /\ HasRevisions
    /\ Len(RawRevisions) = 2
    /\ RawRevisions[1].user = "bob" /\ EarliestUser = "alice"
    /\ req \in DOMAIN sn.rewrites /\ sn.rewrites[req].override /\ sn.rewrites[req].author = "bob"
    /\ page[1].val.authors = <<Author("bob", "original")>>

----------------------------------------------------------------------------
(* The link scenarios: one page whose content region holds up to MaxLinks  *)
(* anchors, with site-relative and other hrefs, with and without an image  *)
(* extension and a trailing "|", with the empty href and with no href.     *)

ImageExts == {".png", ".jpg", ".gif"}

Hrefs ==
    { Href(lead, path, 0, ext, bars) :
          lead \in {"/", "http://other.site/"}, path \in {"x", "y"},
          ext \in {"", ".png", ".gif"}, bars \in {0, 1} }
    \cup { Href("", "x", 0, "", 0), Href("", "", 0, "", 0) }

Anchors == {Anchor(h) : h \in Hrefs} \cup {Elem("a", NoAttrs, <<TextNode(<<Txt("link", 0)>>)>>)}

InitLinks ==
    /\ \E as \in SeqsUpTo(Anchors, MaxLinks) :
           sn = [pages |-> (PageUrl("page-l") :> Record(Html(<<"hub", "tale">>, <<>>, <<Content(as)>>))),
                 images |-> {},
                 rewrites |-> NoRewrites,
                 titles |-> [u \in {} |-> <<>>],
                 skips |-> [n \in {} |-> <<>>]]
    /\ req = PageUrl("page-l")
    /\ page = <<>>
    /\ ret = <<>>
    /\ dom = <<>>
    /\ log = <<>>

SpecLinks == InitLinks /\ [][Next]_vars

LinksReturned == Constructed /\ ret # <<>> /\ ret[1].op = "links" /\ ret[1].ok

\* the hrefs of the anchors of the raw content region, in document order
RawHrefs ==
    LET c == sn.pages[req].html.content[1]
        withHref == SelectSeq(c.kids, LAMBDA a : a.name = "a" /\ "href" \in DOMAIN a.attrs)
    IN  [i \in 1..Len(withHref) |-> withHref[i].attrs["href"]]

\* the url an href targets: the site, then the href without trailing "|"
TargetOf(h) == [site |-> "http://www.scp-wiki.net", href |-> [h EXCEPT !.bars = 0]]

IsInternal(h) == h.lead = "/"

IsImageTarget(u) == u.href.ext \in ImageExts

\* q without the elements that occur earlier in it
RECURSIVE Dedup(_)
Dedup(q) ==
    IF q = <<>> THEN <<>>
    ELSE LET d == Dedup(SubSeq(q, 1, Len(q) - 1))
         IN  IF q[Len(q)] \in SeqRange(d) THEN d ELSE Append(d, q[Len(q)])

InternalTargets ==
    LET hs == SelectSeq(RawHrefs, IsInternal)
    IN  [i \in 1..Len(hs) |-> TargetOf(hs[i])]

\* C9: links() returns the internal hyperlink targets of the raw content
\* region in first-seen order with no duplicates, and holds no link to an
\* image file (.png, .jpg, .gif) and no external link.
C9_Links ==
    LinksReturned =>
        /\ ret[1].val = Dedup(SelectSeq(InternalTargets, LAMBDA u : ~IsImageTarget(u)))
        /\ \A i \in 1..Len(ret[1].val) : ~IsImageTarget(ret[1].val[i])
        /\ \A i \in 1..Len(ret[1].val) : ret[1].val[i].href.lead = "/"

\* links() returned the targets of a page with a repeated internal link, an
\* image link and an external link: the internal target, once
C9_Witness ==
    /\ LinksReturned
    /\ \E i, j \in 1..Len(RawHrefs) : i # j /\ IsInternal(RawHrefs[i]) /\ TargetOf(RawHrefs[i]) = TargetOf(RawHrefs[j])
    /\ Len(ret[1].val) = 1

----------------------------------------------------------------------------
(* The content scenarios: one page whose content region holds up to        *)
(* MaxBlocks blocks of the kinds the passes look for, or which has no      *)
(* content region; the image catalog holds the url CatalogSrc.             *)

Text(s) == TextNode(<<Txt(s, 0)>>)

Para == Elem("p", NoAttrs, <<Text("text")>>)

RateBox == Elem("div", [class |-> "page-rate-widget-box"], <<Text("rating: +1")>>)

\* a tab view of n titles and m tab blocks
TabView(n, m) ==
    Elem("div", [class |-> "yui-navset"],
         << Elem("ul", [class |-> "yui-nav"],
                 [i \in 1..n |-> Elem("li", NoAttrs, <<Elem("em", NoAttrs, <<TextNode(<<Txt("tab", i)>>)>>)>>)]),
            Elem("div", [class |-> "yui-content"],
                 [j \in 1..m |-> Elem("div", [style |-> "display:none"], <<TextNode(<<Txt("body", j)>>)>>)]) >>)

NoteHref == Href("", "javascript:;", 0, "", 0)

FootnoteRef == Elem("sup", [class |-> "footnoteref"], <<Elem("a", [href |-> NoteHref], <<Text("1")>>)>>)

FootnoteFooter ==
    Elem("sup", [class |-> "footnote-footer", id |-> "footnote-1"],
         <<Elem("a", [href |-> NoteHref], <<Text("1")>>), Text(". note")>>)

Quote == Elem("blockquote", NoAttrs, <<Para, Elem("blockquote", NoAttrs, <<Para>>)>>)

BlockLink(s) == Elem("a", [class |-> "collapsible-block-link"], <<Text(s)>>)

\* a collapsible block; its content block holds what body gives, and the
\* unfolded block the list more beside its link and the content block
CollapsibleBlock(body, more) ==
    Elem("div", [class |-> "collapsible-block"],
         << Elem("div", [class |-> "collapsible-block-folded"], <<BlockLink("+ show")>>),
            Elem("div", [class |-> "collapsible-block-unfolded", style |-> "display:none"],
                 << Elem("div", [class |-> "collapsible-block-unfolded-link"], <<BlockLink("- hide")>>),
                    Elem("div", [class |-> "collapsible-block-content"], body) >> \o more) >>)

\* a collapsible block without its link
BrokenCollapsible ==
    Elem("div", [class |-> "collapsible-block"],
         <<Elem("div", [class |-> "collapsible-block-content"], <<Para>>)>>)

CatalogSrc == Src(<<"http:", "", "scp-wiki.wdfiles.com", "local--files", "scp-173", "a.jpg">>)

OtherSrc == Src(<<"http:", "", "other.site", "pics", "b.jpg">>)

\* an image; alt names the block k it stands in and its place there
Img(src, k, s) == Elem("img", [src |-> src, alt |-> Txt(s, k)], <<>>)

ImageBlock(imgs) == Elem("div", [class |-> "scp-image-block"], imgs \o <<Elem("div", [class |-> "scp-image-caption"], <<Para>>)>>)

ImageTable(imgs) == Elem("table", NoAttrs, <<Elem("tr", NoAttrs, <<Elem("td", NoAttrs, imgs)>>)>>)

BlockKinds ==
    {<<"tabs", n, m>> : n \in 0..MaxTabs, m \in 0..MaxTabs}
    \cup { <<"para">>, <<"rate">>, <<"ref">>, <<"footer">>, <<"link">>, <<"quote">>,
           <<"folded">>, <<"unfolded">>, <<"broken">>,
           <<"img-in">>, <<"img-out">>, <<"img-none">>, <<"block-out">>, <<"block-in-out">>,
           <<"block-out-in">>, <<"float-out">>, <<"table-out">> }

\* the block of kind b standing as the k-th block of the content region
Block(b, k) ==
    CASE b[1] = "tabs" -> TabView(b[2], b[3])
      [] b[1] = "para" -> Para
      [] b[1] = "rate" -> RateBox
      [] b[1] = "ref" -> FootnoteRef
      [] b[1] = "footer" -> FootnoteFooter
      [] b[1] = "link" -> Anchor(LinkTo("tale-a"))
      [] b[1] = "quote" -> Quote
      [] b[1] = "folded" -> CollapsibleBlock(<<Para>>, <<>>)
      [] b[1] = "unfolded" -> CollapsibleBlock(<<>>, <<Para>>)
      [] b[1] = "broken" -> BrokenCollapsible
      [] b[1] = "img-in" -> Img(CatalogSrc, k, "a")
      [] b[1] = "img-out" -> Img(OtherSrc, k, "a")
      [] b[1] = "img-none" -> Elem("img", [alt |-> Txt("a", k)], <<>>)
      [] b[1] = "block-out" -> ImageBlock(<<Img(OtherSrc, k, "a")>>)
      [] b[1] = "block-in-out" -> ImageBlock(<<Img(CatalogSrc, k, "a"), Img(OtherSrc, k, "b")>>)
      [] b[1] = "block-out-in" -> ImageBlock(<<Img(OtherSrc, k, "a"), Img(CatalogSrc, k, "b")>>)
      [] b[1] = "float-out" -> Elem("div", [style |-> "float:right"], <<ImageTable(<<Img(OtherSrc, k, "a")>>)>>)
      [] b[1] = "table-out" -> ImageTable(<<Img(OtherSrc, k, "a")>>)

ContentOf(bs) == Content([k \in 1..Len(bs) |-> Block(bs[k], k)])

ContentSnapshot(r, content) ==
    [pages |-> (PageUrl(r) :> Record(Html(<<"tale">>, <<>>, content))),
     images |-> {CatalogSrc},
     rewrites |-> NoRewrites,
     titles |-> [u \in {} |-> <<>>],
     skips |-> [n \in {} |-> <<>>]]

\* an entry of dom: the outcome r of a pass, and self.images after it
DomEntry(r, images) == [ok |-> r.ok, err |-> r.err, val |-> r.val, images |-> images]

InitContent ==
    /\ \/ /\ sn = ContentSnapshot("page-c", <<>>)
          /\ dom = <<>>
       \/ \E bs \in SeqsUpTo(BlockKinds, MaxBlocks) :
              /\ sn = ContentSnapshot("page-c", <<ContentOf(bs)>>)
              /\ dom = <<DomEntry(Ok(ContentOf(bs)), <<>>)>>
    /\ req = PageUrl("page-c")
    /\ page = <<>>
    /\ ret = <<>>
    /\ log = <<>>

\* data = self._parse_tabviews(data) on the last tree of dom
ParseTabviews ==
    /\ dom # <<>> /\ dom[Len(dom)].ok
    /\ Len(log) < MaxPasses
    /\ dom' = Append(dom, DomEntry(_parse_tabviews(dom[Len(dom)].val), dom[Len(dom)].images))
    /\ log' = Append(log, "tabviews")
    /\ UNCHANGED <<sn, req, page, ret>>

\* data = self._parse_collapsibles(data) on the last tree of dom
ParseCollapsibles ==
    /\ dom # <<>> /\ dom[Len(dom)].ok
    /\ Len(log) < MaxPasses
    /\ dom' = Append(dom, DomEntry(_parse_collapsibles(dom[Len(dom)].val), dom[Len(dom)].images))
    /\ log' = Append(log, "collapsibles")
    /\ UNCHANGED <<sn, req, page, ret>>

\* data = self._parse_footnotes(data) on the last tree of dom
ParseFootnotes ==
    /\ dom # <<>> /\ dom[Len(dom)].ok
    /\ Len(log) < MaxPasses
    /\ dom' = Append(dom, DomEntry(_parse_footnotes(dom[Len(dom)].val), dom[Len(dom)].images))
    /\ log' = Append(log, "footnotes")
    /\ UNCHANGED <<sn, req, page, ret>>

\* data = self._parse_links(data) on the last tree of dom
ParseLinks ==
    /\ dom # <<>> /\ dom[Len(dom)].ok
    /\ Len(log) < MaxPasses
    /\ dom' = Append(dom, DomEntry(_parse_links(dom[Len(dom)].val), dom[Len(dom)].images))
    /\ log' = Append(log, "links")
    /\ UNCHANGED <<sn, req, page, ret>>

\* data = self._parse_quotes(data) on the last tree of dom
ParseQuotes ==
    /\ dom # <<>> /\ dom[Len(dom)].ok
    /\ Len(log) < MaxPasses
    /\ dom' = Append(dom, DomEntry(_parse_quotes(dom[Len(dom)].val), dom[Len(dom)].images))
    /\ log' = Append(log, "quotes")
    /\ UNCHANGED <<sn, req, page, ret>>

\* the entry of dom for the outcome r of _parse_images
ImagesEntry(r, before) ==
    IF r.ok THEN DomEntry(Ok(r.val.data), before \o r.val.images) ELSE DomEntry(r, before)

\* data = self._parse_images(data) on the last tree of dom
ParseImages ==
    /\ dom # <<>> /\ dom[Len(dom)].ok
    /\ Len(log) < MaxPasses
    /\ dom' = Append(dom, ImagesEntry(_parse_images(dom[Len(dom)].val, sn.images), dom[Len(dom)].images))
    /\ log' = Append(log, "images")
    /\ UNCHANGED <<sn, req, page, ret>>

NextContent ==
    \/ Construct
    \/ ParseTabviews
    \/ ParseCollapsibles
    \/ ParseFootnotes
    \/ ParseLinks
    \/ ParseQuotes
    \/ ParseImages

SpecContent == InitContent /\ [][NextContent]_vars

----------------------------------------------------------------------------
(* Properties of construction and of the content passes.  dom[1] is the    *)
(* content region as found, dom[k + 1] the outcome of the pass log[k].     *)

\* C5: after construction the page's content is absent exactly when the raw
\* markup has no content region.
C5_ContentAbsentIffNoRegion ==
    Constructed => (page[1].val.data.isNone <=> sn.pages[req].html.content = <<>>)

\* a page was constructed from markup without a content region
C5_Witness == Constructed /\ sn.pages[req].html.content = <<>>

Navsets(t) == select(t, <<>>, <<Step("div", "yui-navset")>>)

\* the texts of the titles of the tab view at path i of t
TitlesAt(t, i) ==
    LET ems == select(t, i, <<Step("ul", "yui-nav"), Step("em", "")>>)
    IN  [x \in 1..Len(ems) |-> TextOf(NodeAt(t, ems[x]))]

\* the tab blocks of the tab view at path i of t
TabsAt(t, i) ==
    LET tps == select(t, i, <<Step("div", "yui-content"), ChildStep("div", "")>>)
    IN  [x \in 1..Len(tps) |-> NodeAt(t, tps[x])]

\* one tabview wrapper of the tab blocks, the j-th prefixed by the j-th title
TabviewOf(titles, tabs) ==
    Elem("div", [class |-> "tabview"],
         [j \in 1..Len(tabs) |->
             Elem("div", [class |-> "tabview-tab"],
                  <<Elem("div", [class |-> "tab-title"], <<TextNode(titles[j])>>)>> \o tabs[j].kids)])

\* C6: tab-view normalization of a container with n titles and m tab blocks
\* yields, when n = m, one tabview wrapper of m tabview-tab blocks, the i-th
\* prefixed by the i-th title, and raises an error when n differs from m in
\* either direction.
C6_TabviewCounts ==
    (log = <<"tabviews">> /\ Len(Navsets(dom[1].val)) = 1) =>
        LET i == Navsets(dom[1].val)[1]
        IN  IF Len(TitlesAt(dom[1].val, i)) = Len(TabsAt(dom[1].val, i))
            THEN /\ dom[2].ok
                 /\ NodeAt(dom[2].val, i) = TabviewOf(TitlesAt(dom[1].val, i), TabsAt(dom[1].val, i))
            ELSE ~dom[2].ok

\* the pass ran on a tab view of two titles and two tab blocks
C6_Witness ==
    /\ log = <<"tabviews">> /\ Len(Navsets(dom[1].val)) = 1
    /\ Len(TitlesAt(dom[1].val, Navsets(dom[1].val)[1])) = 2
    /\ Len(TabsAt(dom[1].val, Navsets(dom[1].val)[1])) = 2
    /\ dom[2].ok

\* the elements of t that the selectors of pass p match
MatchedBy(p, t) ==
    CASE p = "quotes" -> select(t, <<>>, <<Step("blockquote", "")>>)
      [] p = "links" -> select(t, <<>>, <<Step("a", "")>>)
      [] p = "footnotes" -> select(t, <<>>, <<Step("sup", "footnoteref")>>)
                            \o select(t, <<>>, <<Step("sup", "footnote-footer")>>)

\* C7: the quote, link and footnote passes are idempotent: no element of a
\* pass's output is matched by its selector again, and a second run of the
\* pass changes nothing and raises nothing.
C7_PassesIdempotent ==
    \A p \in {"quotes", "links", "footnotes"} :
        (log = <<p, p>>) =>
            /\ MatchedBy(p, dom[2].val) = <<>>
            /\ dom[3].ok
            /\ dom[3].val = dom[2].val

\* the quote pass ran twice on a content region that holds a quote block
C7_Witness ==
    /\ log = <<"quotes", "quotes">>
    /\ MatchedBy("quotes", dom[1].val) # <<>>
    /\ dom[3].ok /\ dom[3].val = dom[2].val

Images(t) == select(t, <<>>, <<Step("img", "")>>)

\* the images of t that carry the alt text of image e
SameImage(t, e) ==
    SelectSeq(Images(t), LAMBDA q : has_attr(NodeAt(t, q), "alt") /\ NodeAt(t, q).attrs["alt"] = e.attrs["alt"])

\* C8: after the image pass, every image of the input whose url is in the
\* catalog has its source rewritten to images/{second-to-last segment}_{last
\* segment}, and every image whose url is not in the catalog is no longer in
\* the content.
C8_ImagePass ==
    (log = <<"images">> /\ dom[2].ok) =>
        \A i \in 1..Len(Images(dom[1].val)) :
            LET e == NodeAt(dom[1].val, Images(dom[1].val)[i])
                out == SameImage(dom[2].val, e)
            IN  has_attr(e, "src") =>
                    IF e.attrs["src"] \in sn.images
                    THEN /\ Len(out) = 1
                         /\ NodeAt(dom[2].val, out[1]).attrs["src"] =
                                [local |-> TRUE,
                                 segs |-> SubSeq(e.attrs["src"].segs, Len(e.attrs["src"].segs) - 1,
                                                 Len(e.attrs["src"].segs))]
                    ELSE out = <<>>

\* the pass ran on a content region with an image of the catalog and one
\* that is not in it
C8_Witness ==
    /\ log = <<"images">> /\ dom[2].ok
    /\ \E i, j \in 1..Len(Images(dom[1].val)) :
           /\ has_attr(NodeAt(dom[1].val, Images(dom[1].val)[i]), "src")
           /\ has_attr(NodeAt(dom[1].val, Images(dom[1].val)[j]), "src")
           /\ NodeAt(dom[1].val, Images(dom[1].val)[i]).attrs["src"] \in sn.images
           /\ NodeAt(dom[1].val, Images(dom[1].val)[j]).attrs["src"] \notin sn.images

----------------------------------------------------------------------------
(* Further properties of children() in the relationship scenarios.         *)

IsScpCase == SeqRange(page[1].val.tags) \cap {"scp", "splash"} # {}

NoRepeats(q) == \A i, j \in 1..Len(q) : q[i] = q[j] => i = j

\* C11 as stated: for a page tagged scp or splash, children() returns exactly
\* the resolved link targets tagged supplement or splash, in first-appearance
\* link order, each at most once.
C11_ScpChildren ==
    (ChildrenReturned /\ IsScpCase) =>
        Returned(SelectSeq(LinkUrls, Supplement)) /\ NoRepeats(ret[1].val)

\* C11, amended: the same, for a page whose url matches no entry of the
\* children overrides.
C11_ScpChildrenWithoutOverride ==
    (ChildrenReturned /\ IsScpCase /\ req \notin OverrideUrls) =>
        Returned(SelectSeq(LinkUrls, Supplement)) /\ NoRepeats(ret[1].val)

\* a page tagged scp linking to a tale and to a supplement got the supplement
C11_Witness ==
    /\ ChildrenReturned /\ IsScpCase /\ req \notin OverrideUrls
    /\ Len(LinkUrls) = 2
    /\ Resolved(LinkUrls[1]) /\ ~Supplement(LinkUrls[1])
    /\ Supplement(LinkUrls[2])
    /\ Returned(<<LinkUrls[2]>>)

\* Page() calls nest deeper than d only if they outnumber the pages of the
\* snapshot, and then some url is under construction twice: the same call
\* inside itself, which never returns
DeeperThanPages(d) == Cardinality(DOMAIN sn.pages) < d

\* C12: constructing a page and calling children() terminate: no link
\* structure of the snapshot, cycles of pages linking to each other included,
\* makes construction and children resolution call each other without end.
C12_Terminates ==
    /\ (page # <<>> /\ DeeperThanPages(MaxDepth)) => page[1].err # "RecursionError"
    /\ (ChildrenReturned /\ DeeperThanPages(MaxDepth - 1)) => ret[1].err # "RecursionError"

\* a hub and a tale that link to each other: the hub was constructed and its
\* children() returned
C12_Witness ==
    /\ ChildrenReturned /\ IsHubCase /\ req \notin OverrideUrls
    /\ \E i \in 1..Len(LinkUrls) :
           /\ LinkUrls[i] \in DOMAIN sn.pages
           /\ req \in SeqRange(links([raw_html |-> sn.pages[LinkUrls[i]].html]).val)
    /\ ret[1].ok

\* C13: constructing a page computes its derived fields but not its
\* children: no children resolution runs during construction, so that it
\* reads no record but the page's own, and no list of children is stored on
\* the page for children() to return.
C13_ChildrenNotResolvedAtConstruction ==
    /\ Constructed => page[1].val.children = <<>>
    /\ (page # <<>> /\ req \in DOMAIN sn.pages) =>
           page[1].err \notin {"DBPage.DoesNotExist", "RecursionError"}

\* a hub was constructed with no list of children stored on it, and its
\* children() then resolved a child
C13_Witness ==
    /\ ChildrenReturned /\ IsHubCase
    /\ page[1].val.children = <<>>
    /\ ret[1].ok /\ ret[1].val # <<>>

----------------------------------------------------------------------------
(* A further property of the authors, in the author scenarios.             *)

\* C14: a record whose history markup is present gives a page whose authors
\* list is non-empty, also when the markup holds no revision rows; a record
\* without history markup gives a page with no authors.
C14_AuthorsWheneverHistory ==
    /\ (page # <<>> /\ sn.pages[req].history # <<>>) => (page[1].ok /\ page[1].val.authors # <<>>)
    /\ (page # <<>> /\ sn.pages[req].history = <<>>) => (page[1].ok /\ page[1].val.authors = <<>>)

\* Page() was called on a record whose history table holds its header row only
C14_Witness ==
    /\ page # <<>>
    /\ sn.pages[req].history # <<>> /\ Len(sn.pages[req].history[1]) = 1

----------------------------------------------------------------------------
(* A further property of children(), in the relationship scenarios.        *)

\* the hub's url is among the links of the content region of u
LinksBack(u) == req \in SeqRange(links([raw_html |-> sn.pages[u].html]).val)

CrumbsOf(u) == sn.pages[u].html.crumbs

\* the last entry of the breadcrumbs of u is the hub's url
LastCrumbIsHub(u) == CrumbsOf(u) # <<>> /\ UrlOf(CrumbsOf(u)[Len(CrumbsOf(u))]) = req

\* the hub's url is an entry of the breadcrumbs of u, but not the last
EarlierCrumbIsHub(u) ==
    /\ \E i \in 1..(Len(CrumbsOf(u)) - 1) : UrlOf(CrumbsOf(u)[i]) = req
    /\ ~LastCrumbIsHub(u)

\* C15: in hub resolution a candidate is confirmed if and only if the hub's
\* url is among the candidate's own links or is the last entry of its
\* breadcrumbs; an earlier entry does not confirm it.  Where some candidate is
\* confirmed, the children returned are the confirmed candidates.
C15_ConfirmedIffBacklink ==
    (ChildrenReturned /\ IsHubCase /\ req \notin OverrideUrls /\ ret[1].ok
     /\ \E i \in 1..Len(Candidates) : LinksBack(Candidates[i]) \/ LastCrumbIsHub(Candidates[i])) =>
        \A i \in 1..Len(Candidates) :
            /\ Candidates[i] \in SeqRange(ret[1].val)
                   <=> (LinksBack(Candidates[i]) \/ LastCrumbIsHub(Candidates[i]))
            /\ (EarlierCrumbIsHub(Candidates[i]) /\ ~LinksBack(Candidates[i]))
                   => Candidates[i] \notin SeqRange(ret[1].val)

\* a hub got, of a candidate naming it in an earlier breadcrumb and one naming
\* it in the last, the second only
C15_Witness ==
    /\ ChildrenReturned /\ IsHubCase /\ req \notin OverrideUrls
    /\ Len(Candidates) = 2
    /\ EarlierCrumbIsHub(Candidates[1]) /\ ~LinksBack(Candidates[1])
    /\ LastCrumbIsHub(Candidates[2]) /\ ~LinksBack(Candidates[2])
    /\ Returned(<<Candidates[2]>>)

----------------------------------------------------------------------------
(* A further property of the image pass, in the content scenarios.         *)

\* every url of the list urls is in the catalog, and the tree t holds an
\* image whose source is the rewritten form of it
ImagesRemain(urls, t) ==
    \A i \in 1..Len(urls) :
        /\ urls[i] \in sn.images
        /\ \E k \in 1..Len(Images(t)) :
               /\ has_attr(NodeAt(t, Images(t)[k]), "src")
               /\ NodeAt(t, Images(t)[k]).attrs["src"] = LocalSrc(urls[i])

\* the images of the raw content region of the page asked for
RawImages == Images(sn.pages[req].html.content[1])

\* C16: after construction every url of the page's list of referenced images
\* is a url of the catalog whose rewritten image is still in the content: an
\* image recorded as used is not removed afterwards with the wrapper of an
\* image outside the catalog.  The same of the image pass run on its own.
C16_ReferencedImagesRemain ==
    /\ Constructed => ImagesRemain(page[1].val.images, page[1].val.data.body)
    /\ (log = <<"images">> /\ dom[2].ok) => ImagesRemain(dom[2].images, dom[2].val)

\* a page was constructed with a referenced image, from a content region that
\* also holds an image outside the catalog
C16_Witness ==
    /\ Constructed /\ page[1].val.images # <<>>
    /\ \E k \in 1..Len(RawImages) :
           /\ has_attr(NodeAt(sn.pages[req].html.content[1], RawImages[k]), "src")
           /\ NodeAt(sn.pages[req].html.content[1], RawImages[k]).attrs["src"] \notin sn.images

====
